---- MODULE Spec2Model ----
(***************************************************************************)
(* Third-person character controller: Player (src/unnamed/part_000),       *)
(* CameraController (src/src/Camera.js) and the frame driver Game          *)
(* (src/src/Game.js).                                                      *)
(*                                                                         *)
(* Number representation.  The program computes in IEEE doubles; the model *)
(* computes in fixed point:                                                *)
(*   lengths       in 1/Scale world units        (Scale = 1000)            *)
(*   velocities    in 1/Scale world units / s                              *)
(*   angles        in 10^-6 radians                                        *)
(*   sin, cos, t   in 1/Scale                                              *)
(*   time          in ticks of 1/TicksPerSecond s (0.1 s); the damping     *)
(*                 scenario calls the camera update with milliseconds      *)
(* Results that are not representable are rounded to the nearest unit.     *)
(***************************************************************************)
EXTENDS Integers, FiniteSets, Sequences, TLC

(***************************************************************************)
(* Bounds of the model.                                                    *)
(***************************************************************************)
\* the largest frame delta clock.getDelta() returns, in ticks
MaxDelta == 2
\* frames (Game.animate calls) and input events of a run from construction
MaxFrames == 1
MaxInputs == 2
\* frames and key events of a run of the loaded player
PlayFrames == 3
PlayInputs == 2
\* the largest fixed frame step of a jump scenario, and its length, in ticks
MaxStep == 4
MaxJumpTicks == 12

\* pointer events (clicks and mouse moves) of a run of the mouse scenario
MaxMoves == 4

\* CameraController.update calls of a run of the damping scenario
MaxDampSteps == 60

\* frames and key events of a run of the animation scenario
AnimFrames == 2
AnimInputs == 1

\* frames of a run with the jump key held
MaxHoldFrames == 5

Scale == 10 * 100
TicksPerSecond == 2 * 5

(***************************************************************************)
(* Program constants.                                                      *)
(***************************************************************************)
speed == 5
gravity == -20
jumpForce == 8
\* 0.002 rad per pixel
sensitivity == 2000
\* -Math.PI / 4
minPhi == -785398
\* Math.PI / 3
maxPhi == 1047198
decay == 10

AnimNames == {"idle", "walk", "jump"}
KeyCodes == {"KeyW", "KeyS", "KeyA", "KeyD", "Space", "KeyV", "KeyQ"}
DeltaTimes == 0..MaxDelta
\* movementX and movementY of a mousemove, in pixels: none, a move of 1.2 rad
\* either way and, vertically, a very large one
MovementsX == {0 - 600, 0, 600}
MovementsY == {0 - 100000, 0 - 600, 0, 600, 100000}

VARIABLES
    \* Player
    position, velocityY, isJumping, keys, mesh, mixer, animations,
    currentAction, isLoaded, loadedCount, pending,
    \* CameraController
    theta, phi, isShoulderMode, currentPosition, currentLookat,
    \* collaborators: render camera, document.pointerLockElement, clock
    camera, pointerLocked, elapsed,
    \* observation: frames run, input events delivered, whether the last
    \* Player.update executed the jump-impulse assignment, the kind of the
    \* handler that ran last, and the clip that handler reset and started
    \* ("null" if none)
    frames, nInputs, impulse, lastEvent, started

vars == <<position, velocityY, isJumping, keys, mesh, mixer, animations,
          currentAction, isLoaded, loadedCount, pending, theta, phi,
          isShoulderMode, currentPosition, currentLookat, camera,
          pointerLocked, elapsed, frames, nInputs, impulse, lastEvent,
          started>>

playerVars == <<position, velocityY, isJumping, keys, mesh, mixer, animations,
                currentAction, isLoaded, loadedCount, pending>>
cameraVars == <<theta, phi, isShoulderMode, currentPosition, currentLookat,
                camera, pointerLocked>>

(***************************************************************************)
(* Fixed-point arithmetic.                                                 *)
(***************************************************************************)
Abs(a) == IF a < 0 THEN 0 - a ELSE a

\* a / b rounded to the nearest integer (half away from zero), b > 0
RoundDiv(a, b) ==
    IF a >= 0 THEN (2 * a + b) \div (2 * b)
    ELSE 0 - ((2 * (0 - a) + b) \div (2 * b))

\* product of two 1/Scale numbers
Mul(a, b) == RoundDiv(a * b, Scale)

Vec(a, b, c) == [x |-> a, y |-> b, z |-> c]
ZeroVec == Vec(0, 0, 0)
VSub(u, v) == Vec(u.x - v.x, u.y - v.y, u.z - v.z)

RECURSIVE Newton(_, _)
Newton(n, g) ==
    LET h == (g + n \div g) \div 2
    IN  IF h >= g THEN g ELSE Newton(n, h)

\* floor of the square root
ISqrt(n) == IF n <= 0 THEN 0 ELSE Newton(n, n)

\* Vector3.length() of a vector with y = 0
Length2(a, b) == ISqrt(a * a + b * b)

\* (a, 0, b) divided by its length len: divideScalar(length() || 1)
DivideByLength(a, b, len) ==
    IF len = 0 THEN [x |-> 0, z |-> 0]
    ELSE [x |-> RoundDiv(a * Scale, len), z |-> RoundDiv(b * Scale, len)]

\* Vector3.normalize() of (a, 0, b).  A short vector is scaled up first so
\* that the rounding of its length is small.
Normalize2(a, b) ==
    LET k == IF Abs(a) <= 300 /\ Abs(b) <= 300 THEN 100 ELSE 1
    IN  DivideByLength(a * k, b * k, Length2(a * k, b * k))

Pi == RoundDiv(31415927, 10)
TwoPi == 2 * Pi
HalfPi == RoundDiv(Pi, 2)

\* an angle brought into (-Pi, Pi]
WrapAngle(a) ==
    LET r == a % TwoPi
    IN  IF r > Pi THEN r - TwoPi ELSE r

RECURSIVE SinSeries(_, _, _, _)
\* the Taylor series of sin in units of 1/10000: term is the n-th odd term
SinSeries(u2, term, n, acc) ==
    IF term = 0 THEN acc
    ELSE SinSeries(u2,
                   0 - RoundDiv(term * u2, 10000 * (2 * n) * (2 * n + 1)),
                   n + 1, acc + term)

\* an angle of (-Pi, Pi] reflected into [-Pi/2, Pi/2], keeping its sine
FoldAngle(w) ==
    IF w > HalfPi THEN Pi - w
    ELSE IF w < 0 - HalfPi THEN 0 - Pi - w ELSE w

\* the sine of u, in 1/10000 rad in [-Pi/2, Pi/2], in 1/Scale
SinOf(u) == RoundDiv(SinSeries(RoundDiv(u * u, 10000), u, 1, 0), 10)

\* Math.sin of an angle in 10^-6 rad, in 1/Scale
Sin(a) == SinOf(RoundDiv(FoldAngle(WrapAngle(a)), 100))

\* Math.cos of an angle in 10^-6 rad, in 1/Scale
Cos(a) == Sin(a + HalfPi)

RECURSIVE AtanSeries(_, _, _, _)
\* the Taylor series of atan in units of 1/10000: pow is the n-th odd power
AtanSeries(u2, pow, n, acc) ==
    IF pow = 0 THEN acc
    ELSE AtanSeries(u2, 0 - RoundDiv(pow * u2, 10000), n + 1,
                    acc + RoundDiv(pow, 2 * n + 1))

\* atan of r in [0, 1], both in units of 1/10000; above tan(Pi/8) by
\* atan(r) = Pi/4 - atan((1 - r) / (1 + r))
AtanUnit(r) ==
    IF r > 4142
    THEN RoundDiv(Pi, 400)
         - AtanSeries(RoundDiv((RoundDiv((10000 - r) * 10000, 10000 + r)) *
                               (RoundDiv((10000 - r) * 10000, 10000 + r)), 10000),
                      RoundDiv((10000 - r) * 10000, 10000 + r), 0, 0)
    ELSE AtanSeries(RoundDiv(r * r, 10000), r, 0, 0)

\* the angle of (ax, ay), ax >= 0, ay >= 0, from the first axis, in
\* 10^-6 rad
QuadrantAngle(ay, ax) ==
    IF ay = 0 THEN 0
    ELSE IF ax = 0 THEN HalfPi
    ELSE IF ay <= ax THEN 100 * AtanUnit(RoundDiv(ay * 10000, ax))
    ELSE HalfPi - 100 * AtanUnit(RoundDiv(ax * 10000, ay))

\* mutant of Atan2: the arguments taken in the other order
Atan2Swapped(y, x) ==
    IF y >= 0
    THEN (IF x >= 0 THEN QuadrantAngle(x, y) ELSE 0 - QuadrantAngle(0 - x, y))
    ELSE (IF x >= 0 THEN Pi - QuadrantAngle(x, 0 - y)
          ELSE QuadrantAngle(0 - x, 0 - y) - Pi)

\* Math.atan2(y, x) in 10^-6 rad, in (-Pi, Pi]
Atan2(y, x) ==
    IF x >= 0
    THEN (IF y >= 0 THEN QuadrantAngle(y, x) ELSE 0 - QuadrantAngle(0 - y, x))
    ELSE (IF y >= 0 THEN Pi - QuadrantAngle(y, 0 - x)
          ELSE QuadrantAngle(0 - y, 0 - x) - Pi)

RECURSIVE ExpSeries(_, _, _, _)
\* the Taylor series of exp(z), z >= 0 in 1/Scale, in 1/Scale
ExpSeries(z, term, n, acc) ==
    IF term = 0 THEN acc
    ELSE ExpSeries(z, RoundDiv(term * z, Scale * n), n + 1, acc + term)

\* Math.exp(-z), z >= 0 in 1/Scale, in 1/Scale
ExpNeg(z) == RoundDiv(Scale * Scale, ExpSeries(z, Scale, 1, 0))

\* a frame delta of dt ticks in 1/Scale seconds
Seconds(dt) == (dt * Scale) \div TicksPerSecond

(***************************************************************************)
(* Player (src/unnamed/part_000).                                          *)
(***************************************************************************)
NoKeys == [forward |-> FALSE, backward |-> FALSE, left |-> FALSE,
           right |-> FALSE, space |-> FALSE]

\* mutant of SetKey: the switch without its break statements, so that a case
\* falls through to the ones below it
SetKeyFallThrough(k, code, down) ==
    CASE code = "KeyW"  -> [forward |-> down, backward |-> down, left |-> down,
                            right |-> down, space |-> down]
      [] code = "KeyS"  -> [k EXCEPT !.backward = down, !.left = down,
                                     !.right = down, !.space = down]
      [] code = "KeyA"  -> [k EXCEPT !.left = down, !.right = down,
                                     !.space = down]
      [] code = "KeyD"  -> [k EXCEPT !.right = down, !.space = down]
      [] code = "Space" -> [k EXCEPT !.space = down]
      [] OTHER          -> k

\* onKeyDown / onKeyUp: the flag the key code names is set to `down`
SetKey(k, code, down) ==
    CASE code = "KeyW"  -> [k EXCEPT !.forward = down]
      [] code = "KeyS"  -> [k EXCEPT !.backward = down]
      [] code = "KeyA"  -> [k EXCEPT !.left = down]
      [] code = "KeyD"  -> [k EXCEPT !.right = down]
      [] code = "Space" -> [k EXCEPT !.space = down]
      [] OTHER          -> k

\* mutant of PlayAnimation: the test for the clip that already plays is
\* missing, so that the current clip is faded out, reset and started again
PlayAnimationRestarts(anims, cur, name) ==
    IF anims[name] = "none"
    THEN [animations |-> anims, currentAction |-> cur, started |-> "null"]
    ELSE [animations |->
              [a \in AnimNames |->
                  IF a = name THEN "playing"
                  ELSE IF a = cur THEN "fading"
                  ELSE anims[a]],
          currentAction |-> name,
          started |-> name]

\* playAnimation(name): the animation actions, currentAction and the clip
\* started by the call.  An action is "none" (not loaded), "ready" (loaded, never played),
\* "playing" (reset().fadeIn().play()) or "fading" (fadeOut()).
PlayAnimation(anims, cur, name) ==
    IF anims[name] = "none"
    THEN [animations |-> anims, currentAction |-> cur, started |-> "null"]
    ELSE IF cur = name
    THEN [animations |-> anims, currentAction |-> cur, started |-> "null"]
    ELSE [animations |->
              [a \in AnimNames |->
                  IF a = name THEN "playing"
                  ELSE IF a = cur THEN "fading"
                  ELSE anims[a]],
          currentAction |-> name,
          started |-> name]

\* mutant of JumpRequested: the test forgets that a jump is under way
JumpRequestedWhileJumping(k, jumping) == k.space

\* the jump test of update
JumpRequested(k, jumping) == k.space /\ ~jumping

\* mutant of VerticalStep: the ground collision zeroes the velocity and the
\* flag but does not snap the height to 0
VerticalStepNoSnap(y, vy, jumping, k, dt) ==
    LET jump == JumpRequested(k, jumping)
        vy1  == IF jump THEN jumpForce * Scale ELSE vy
        j1   == jump \/ jumping
        vy2  == vy1 + (gravity * Scale * dt) \div TicksPerSecond
        y2   == y + (vy2 * dt) \div TicksPerSecond
    IN  IF y2 <= 0
        THEN [y |-> y2, velocityY |-> 0, isJumping |-> FALSE, impulse |-> jump]
        ELSE [y |-> y2, velocityY |-> vy2, isJumping |-> j1, impulse |-> jump]

\* mutant of VerticalStep: the ground collision does not clear isJumping
VerticalStepKeepsJumping(y, vy, jumping, k, dt) ==
    LET jump == JumpRequested(k, jumping)
        vy1  == IF jump THEN jumpForce * Scale ELSE vy
        j1   == jump \/ jumping
        vy2  == vy1 + (gravity * Scale * dt) \div TicksPerSecond
        y2   == y + (vy2 * dt) \div TicksPerSecond
    IN  IF y2 <= 0
        THEN [y |-> 0, velocityY |-> 0, isJumping |-> j1, impulse |-> jump]
        ELSE [y |-> y2, velocityY |-> vy2, isJumping |-> j1, impulse |-> jump]

\* mutant of VerticalStep: explicit Euler, the height advanced with the
\* velocity of before the gravity step
VerticalStepExplicit(y, vy, jumping, k, dt) ==
    LET jump == JumpRequested(k, jumping)
        vy1  == IF jump THEN jumpForce * Scale ELSE vy
        j1   == jump \/ jumping
        vy2  == vy1 + (gravity * Scale * dt) \div TicksPerSecond
        y2   == y + (vy1 * dt) \div TicksPerSecond
    IN  IF y2 <= 0
        THEN [y |-> 0, velocityY |-> 0, isJumping |-> FALSE, impulse |-> jump]
        ELSE [y |-> y2, velocityY |-> vy2, isJumping |-> j1, impulse |-> jump]

\* mutant of VerticalStep: isJumping is cleared as soon as the player stops
\* rising, so that a held jump key jumps again in mid-air
VerticalStepJumpEndsAtApex(y, vy, jumping, k, dt) ==
    LET jump == JumpRequested(k, jumping)
        vy1  == IF jump THEN jumpForce * Scale ELSE vy
        j1   == jump \/ jumping
        vy2  == vy1 + (gravity * Scale * dt) \div TicksPerSecond
        y2   == y + (vy2 * dt) \div TicksPerSecond
    IN  IF y2 <= 0
        THEN [y |-> 0, velocityY |-> 0, isJumping |-> FALSE, impulse |-> jump]
        ELSE [y |-> y2, velocityY |-> vy2, isJumping |-> j1 /\ vy2 > 0,
              impulse |-> jump]

\* update, vertical part: jump input, gravity, ground collision
\* (velocity in 1/Scale units per second, dt in ticks)
VerticalStep(y, vy, jumping, k, dt) ==
    LET jump == JumpRequested(k, jumping)
        vy1  == IF jump THEN jumpForce * Scale ELSE vy
        j1   == jump \/ jumping
        vy2  == vy1 + (gravity * Scale * dt) \div TicksPerSecond
        y2   == y + (vy2 * dt) \div TicksPerSecond
    IN  IF y2 <= 0
        THEN [y |-> 0, velocityY |-> 0, isJumping |-> FALSE, impulse |-> jump]
        ELSE [y |-> y2, velocityY |-> vy2, isJumping |-> j1, impulse |-> jump]

\* mutant of InputVector: else-if chains, so that of two opposing keys the
\* first wins instead of both cancelling
InputVectorFirstWins(k) ==
    [x |-> IF k.left THEN 0 - 1 ELSE IF k.right THEN 1 ELSE 0,
     z |-> IF k.forward THEN 0 - 1 ELSE IF k.backward THEN 1 ELSE 0]

\* the movement input vector built from the four directional flags
InputVector(k) ==
    [x |-> (IF k.right THEN 1 ELSE 0) - (IF k.left THEN 1 ELSE 0),
     z |-> (IF k.backward THEN 1 ELSE 0) - (IF k.forward THEN 1 ELSE 0)]

\* inputVector.length() > 0
HasInput(k) == InputVector(k).x # 0 \/ InputVector(k).z # 0

\* moveDirection for the normalized input n and the normalized horizontal
\* camera direction dir; cameraRight = dir x (0, 1, 0) = (-dir.z, 0, dir.x)
CombineDirections(n, dir) ==
    Normalize2(Mul(dir.x, 0 - n.z) + Mul(0 - dir.z, n.x),
               Mul(dir.z, 0 - n.z) + Mul(dir.x, n.x))

\* the camera-relative, normalized moveDirection; fwd is the camera's
\* (unnormalized) world direction
MoveDirection(k, fwd) ==
    CombineDirections(Normalize2(InputVector(k).x * Scale,
                                 InputVector(k).z * Scale),
                      Normalize2(fwd.x, fwd.z))

\* mutant of ScaleStep: the step not scaled by deltaTime (a fixed step of
\* speed / 10 per frame)
ScaleStepPerFrame(md, dt) ==
    [x |-> RoundDiv(md.x * speed, TicksPerSecond),
     z |-> RoundDiv(md.z * speed, TicksPerSecond)]

\* moveDirection.multiplyScalar(speed * deltaTime)
ScaleStep(md, dt) ==
    [x |-> RoundDiv(md.x * speed * dt, TicksPerSecond),
     z |-> RoundDiv(md.z * speed * dt, TicksPerSecond)]

\* moveDirection of update; the zero vector stands for the skipped branch
Movement(k, fwd) ==
    IF HasInput(k) THEN MoveDirection(k, fwd) ELSE [x |-> 0, z |-> 0]

\* mesh.quaternion.slerp(q, 10 * deltaTime) for rotations about Y: the yaw
\* moves by the factor times the shortest angle to the target yaw
Slerp(yaw, target, dt) ==
    WrapAngle(yaw + RoundDiv(10 * dt * WrapAngle(target - yaw),
                             TicksPerSecond))

\* the mesh after update: y always follows, x, z and the facing only in the
\* movement branch
MeshAfter(m, k, pos, md, dt) ==
    IF HasInput(k)
    THEN [present |-> TRUE, position |-> pos,
          yaw |-> Slerp(m.yaw, Atan2(md.x, md.z), dt)]
    ELSE [present |-> TRUE,
          position |-> Vec(m.position.x, pos.y, m.position.z),
          yaw |-> m.yaw]

\* mutant of SelectAnimation: walking tested before jumping
SelectAnimationWalkFirst(jumping, k) ==
    IF HasInput(k) THEN "walk" ELSE IF jumping THEN "jump" ELSE "idle"

\* the animation the frame selects
SelectAnimation(jumping, k) ==
    IF jumping THEN "jump" ELSE IF HasInput(k) THEN "walk" ELSE "idle"

\* mutant of UpdateEnabled: the isLoaded guard is missing
UpdateAlways(loaded) == TRUE

\* update runs only once everything is loaded
UpdateEnabled(loaded) == loaded

\* the fields of p after an update with vertical result v, position pos and
\* moveDirection md
PlayerApply(p, v, pos, md, dt) ==
    [p EXCEPT !.position = pos,
              !.velocityY = v.velocityY,
              !.isJumping = v.isJumping,
              !.impulse = v.impulse,
              !.mesh = MeshAfter(p.mesh, p.keys, pos, md, dt),
              !.animations =
                  PlayAnimation(p.animations, p.currentAction,
                                SelectAnimation(v.isJumping, p.keys)).animations,
              !.currentAction =
                  PlayAnimation(p.animations, p.currentAction,
                                SelectAnimation(v.isJumping, p.keys)).currentAction,
              !.started =
                  PlayAnimation(p.animations, p.currentAction,
                                SelectAnimation(v.isJumping, p.keys)).started]

\* update after its vertical part v, with moveDirection md
PlayerMove(p, v, md, dt) ==
    PlayerApply(p, v,
                Vec(p.position.x + ScaleStep(md, dt).x, v.y,
                    p.position.z + ScaleStep(md, dt).z),
                md, dt)

\* Player.update(deltaTime) on the player's fields p, reading the render
\* camera's direction fwd; returns the fields after the call
PlayerUpdate(p, fwd, dt) ==
    IF ~UpdateEnabled(p.isLoaded)
    THEN [p EXCEPT !.impulse = FALSE, !.started = "null"]
    ELSE PlayerMove(p,
                    VerticalStep(p.position.y, p.velocityY, p.isJumping,
                                 p.keys, dt),
                    Movement(p.keys, fwd), dt)

(***************************************************************************)
(* CameraController (src/src/Camera.js).                                   *)
(***************************************************************************)
\* mutant of ClampPitch: only the upper limit is applied
ClampPitchAbove(a) == IF a < maxPhi THEN a ELSE maxPhi

\* Math.max(minPhi, Math.min(maxPhi, phi))
ClampPitch(a) ==
    LET m == IF a < maxPhi THEN a ELSE maxPhi
    IN  IF m > minPhi THEN m ELSE minPhi

\* mutant of MouseMoved: the yaw kept within (-pi, pi]
MouseMovedWrapped(th, ph, locked, mx, my) ==
    IF locked
    THEN [theta |-> WrapAngle(th - mx * sensitivity),
          phi   |-> ClampPitch(ph - my * sensitivity)]
    ELSE [theta |-> th, phi |-> ph]

\* the mousemove listener: yaw and pitch after a move of (mx, my) pixels
MouseMoved(th, ph, locked, mx, my) ==
    IF locked
    THEN [theta |-> th - mx * sensitivity,
          phi   |-> ClampPitch(ph - my * sensitivity)]
    ELSE [theta |-> th, phi |-> ph]

\* the lower limit of the ideal camera height
ClampHeight(y) == IF y < 200 THEN 200 ELSE y

\* the ideal camera position from the sines and cosines of yaw and pitch
OffsetFrom(sinT, cosT, sinP, cosP, shoulder, tp) ==
    LET currentRadius == IF shoulder THEN 1500 ELSE 3000
        sideOffset    == IF shoulder THEN 800 ELSE 0
        heightOffset  == 1500
        x  == Mul(Mul(currentRadius, sinT), cosP)
        y  == Mul(currentRadius, sinP) + heightOffset
        z  == Mul(Mul(currentRadius, cosT), cosP)
        sx == IF sideOffset # 0 THEN x + Mul(cosT, sideOffset) ELSE x
        sz == IF sideOffset # 0 THEN z + Mul(0 - sinT, sideOffset) ELSE z
    IN  Vec(sx + tp.x, ClampHeight(y + tp.y), sz + tp.z)

\* calculateIdealOffset(): the ideal camera position for target position tp
CalculateIdealOffset(th, ph, shoulder, tp) ==
    OffsetFrom(Sin(th), Cos(th), Sin(ph), Cos(ph), shoulder, tp)

\* mutant of LookatFrom: the look-at point shifted to the left of the player
LookatFromLeft(sinT, cosT, shoulder, tp) ==
    LET sideLookOffset == 800
        lx == IF shoulder THEN 0 - Mul(cosT, sideLookOffset) ELSE 0
        lz == IF shoulder THEN 0 - Mul(0 - sinT, sideLookOffset) ELSE 0
    IN  Vec(lx + tp.x, 1500 + tp.y, lz + tp.z)

\* the ideal look-at point from the sine and cosine of yaw
LookatFrom(sinT, cosT, shoulder, tp) ==
    LET sideLookOffset == 800
        lx == IF shoulder THEN Mul(cosT, sideLookOffset) ELSE 0
        lz == IF shoulder THEN Mul(0 - sinT, sideLookOffset) ELSE 0
    IN  Vec(lx + tp.x, 1500 + tp.y, lz + tp.z)

\* calculateIdealLookat(): the ideal look-at point for target position tp
CalculateIdealLookat(th, shoulder, tp) ==
    LookatFrom(Sin(th), Cos(th), shoulder, tp)

\* mutant of DampFactorOf: the factor decay * timeElapsed, without the
\* exponential
DampFactorLinear(s) == decay * s

\* t = 1.0 - Math.exp(-decay * timeElapsed), in 1/Scale, for timeElapsed = s
\* in 1/Scale seconds
DampFactorOf(s) == Scale - ExpNeg(decay * s)

\* t for a frame delta of dt ticks
DampFactor(dt) == DampFactorOf(Seconds(dt))

\* Vector3.lerp(w, t)
Lerp(v, w, t) ==
    Vec(v.x + Mul(w.x - v.x, t), v.y + Mul(w.y - v.y, t),
        v.z + Mul(w.z - v.z, t))

\* the direction d = target - eye the camera faces after lookAt, kept
\* unnormalized.  three.js faces -Z when eye = target, and nudges a vertical
\* view line toward -Z.
Facing(d) == IF d.x = 0 /\ d.z = 0 THEN Vec(0, d.y, 0 - 1) ELSE d

\* camera.lookAt(target) from eye
LookAt(eye, target) == Facing(VSub(target, eye))

\* mutant of CameraEnabled: the mesh guard is missing
CameraAlways(m) == TRUE

\* update is skipped until the player's mesh is there
CameraEnabled(m) == m.present

\* the fields of c with the damped pose (pos, lk) applied to the camera
CameraApply(c, pos, lk) ==
    [c EXCEPT !.currentPosition = pos,
              !.currentLookat = lk,
              !.camera = [position |-> pos, forward |-> LookAt(pos, lk)]]

\* the damping of update by factor t
CameraDamp(c, m, t) ==
    CameraApply(c,
                Lerp(c.currentPosition,
                     CalculateIdealOffset(c.theta, c.phi, c.isShoulderMode,
                                          m.position), t),
                Lerp(c.currentLookat,
                     CalculateIdealLookat(c.theta, c.isShoulderMode,
                                          m.position), t))

\* CameraController.update(timeElapsed) on the controller's fields c for the
\* target mesh m; returns the fields after the call
CameraUpdate(c, m, dt) ==
    IF ~CameraEnabled(m) THEN c ELSE CameraDamp(c, m, DampFactor(dt))

(***************************************************************************)
(* State after construction: new Game() has built the scene, the player    *)
(* (model load in flight) and the camera controller.                       *)
(***************************************************************************)
NoMesh == [present |-> FALSE, position |-> ZeroVec, yaw |-> 0]

Init ==
    /\ position = ZeroVec
    /\ velocityY = 0
    /\ isJumping = FALSE
    /\ keys = NoKeys
    /\ mesh = NoMesh
    /\ mixer = FALSE
    /\ animations = [a \in AnimNames |-> "none"]
    /\ currentAction = "null"
    /\ isLoaded = FALSE
    /\ loadedCount = 0
    /\ pending = {"mesh"}
    /\ theta = 0
    /\ phi = 0
    /\ isShoulderMode = FALSE
    /\ currentPosition = ZeroVec
    /\ currentLookat = ZeroVec
    /\ camera = [position |-> Vec(0, 5000, 10000), forward |-> Vec(0, 0, 0 - 1)]
    /\ pointerLocked = FALSE
    /\ elapsed = 0
    /\ frames = 0
    /\ nInputs = 0
    /\ impulse = FALSE
    /\ lastEvent = "construct"
    /\ started = "null"

(***************************************************************************)
(* Asset loading callbacks.                                                *)
(***************************************************************************)
\* the callback of loader.load('/models/mc.fbx', ...)
MeshLoaded ==
    /\ "mesh" \in pending
    /\ mesh' = [present |-> TRUE, position |-> position, yaw |-> 0]
    /\ mixer' = TRUE
    /\ pending' = (pending \ {"mesh"}) \cup AnimNames
    /\ UNCHANGED <<position, velocityY, isJumping, keys, animations,
                   currentAction, isLoaded, loadedCount>>
    /\ lastEvent' = "load"
    /\ started' = "null"
    /\ UNCHANGED <<cameraVars, elapsed, frames, nInputs, impulse>>

\* mutant of AllLoaded: the count is compared with one less than the total
AllButOneLoaded(count) == count = Cardinality(AnimNames) - 1

\* all clips are in
AllLoaded(count) == count = Cardinality(AnimNames)

\* the callback of loader.load(path, ...) of loadAnimations for clip `name`
AnimLoaded(name) ==
    /\ name \in pending
    /\ name \in AnimNames
    /\ pending' = pending \ {name}
    /\ loadedCount' = loadedCount + 1
    /\ LET anims == [animations EXCEPT ![name] = "ready"]
           an    == PlayAnimation(anims, currentAction, "idle")
       IN  IF AllLoaded(loadedCount + 1)
           THEN /\ isLoaded' = TRUE
                /\ animations' = an.animations
                /\ currentAction' = an.currentAction
                /\ started' = an.started
           ELSE /\ isLoaded' = isLoaded
                /\ animations' = anims
                /\ currentAction' = currentAction
                /\ started' = "null"
    /\ UNCHANGED <<position, velocityY, isJumping, keys, mesh, mixer>>
    /\ lastEvent' = "load"
    /\ UNCHANGED <<cameraVars, elapsed, frames, nInputs, impulse>>

(***************************************************************************)
(* Input events.                                                           *)
(***************************************************************************)
\* keydown: Player.onKeyDown and the camera's KeyV listener
KeyDown(code) ==
    /\ nInputs' = nInputs + 1
    /\ keys' = SetKey(keys, code, TRUE)
    /\ isShoulderMode' = IF code = "KeyV" THEN ~isShoulderMode
                         ELSE isShoulderMode
    /\ UNCHANGED <<position, velocityY, isJumping, mesh, mixer, animations,
                   currentAction, isLoaded, loadedCount, pending>>
    /\ lastEvent' = "key"
    /\ started' = "null"
    /\ UNCHANGED <<theta, phi, currentPosition, currentLookat, camera,
                   pointerLocked, elapsed, frames, impulse>>

\* keyup: Player.onKeyUp
KeyUp(code) ==
    /\ nInputs' = nInputs + 1
    /\ keys' = SetKey(keys, code, FALSE)
    /\ UNCHANGED <<position, velocityY, isJumping, mesh, mixer, animations,
                   currentAction, isLoaded, loadedCount, pending>>
    /\ lastEvent' = "key"
    /\ started' = "null"
    /\ UNCHANGED <<cameraVars, elapsed, frames, impulse>>

\* click: document.body.requestPointerLock(), which the browser may refuse
Click(granted) ==
    /\ nInputs' = nInputs + 1
    /\ pointerLocked' = (pointerLocked \/ granted)
    /\ lastEvent' = "pointer"
    /\ started' = "null"
    /\ UNCHANGED <<playerVars, theta, phi, isShoulderMode, currentPosition,
                   currentLookat, camera, elapsed, frames, impulse>>

\* mousemove with movementX = mx, movementY = my
MouseMove(mx, my) ==
    /\ nInputs' = nInputs + 1
    /\ LET r == MouseMoved(theta, phi, pointerLocked, mx, my)
       IN  /\ theta' = r.theta
           /\ phi' = r.phi
    /\ lastEvent' = "pointer"
    /\ started' = "null"
    /\ UNCHANGED <<playerVars, isShoulderMode, currentPosition, currentLookat,
                   camera, pointerLocked, elapsed, frames, impulse>>

(***************************************************************************)
(* The frame: Game.animate.                                                *)
(***************************************************************************)
\* the player's fields as a record
PlayerFields ==
    [position |-> position, velocityY |-> velocityY, isJumping |-> isJumping,
     keys |-> keys, mesh |-> mesh, animations |-> animations,
     currentAction |-> currentAction, isLoaded |-> isLoaded,
     impulse |-> impulse, started |-> started]

\* the camera controller's fields as a record
CameraFields ==
    [theta |-> theta, phi |-> phi, isShoulderMode |-> isShoulderMode,
     currentPosition |-> currentPosition, currentLookat |-> currentLookat,
     camera |-> camera]

\* the state after a frame that left the player as p and the controller as c
FrameResult(p, c) ==
    /\ position' = p.position
    /\ velocityY' = p.velocityY
    /\ isJumping' = p.isJumping
    /\ mesh' = p.mesh
    /\ animations' = p.animations
    /\ currentAction' = p.currentAction
    /\ impulse' = p.impulse
    /\ started' = p.started
    /\ currentPosition' = c.currentPosition
    /\ currentLookat' = c.currentLookat
    /\ camera' = c.camera

\* mutant of CameraFrame: the camera update reads the mesh as it was before
\* the frame's player update (the two updates in the opposite order)
CameraFrameStale(p, dt) == FrameResult(p, CameraUpdate(CameraFields, mesh, dt))

\* the camera update of a frame, after the player update left p
CameraFrame(p, dt) == FrameResult(p, CameraUpdate(CameraFields, p.mesh, dt))

\* Game.animate with clock.getDelta() = dt ticks: player.update(dt), then
\* cameraController.update(dt) (render draws and changes nothing)
Animate(dt) ==
    /\ frames' = frames + 1
    /\ elapsed' = elapsed + dt
    /\ lastEvent' = "frame"
    /\ CameraFrame(PlayerUpdate(PlayerFields, camera.forward, dt), dt)
    /\ UNCHANGED <<keys, mixer, isLoaded, loadedCount, pending, theta, phi,
                   isShoulderMode, pointerLocked, nInputs>>

\* a frame
Frame == \E dt \in DeltaTimes : Animate(dt)

(***************************************************************************)
(* Spec: the program from construction, with loading, every input event    *)
(* and frames.                                                             *)
(***************************************************************************)
Next ==
    \/ MeshLoaded
    \/ \E name \in AnimNames : AnimLoaded(name)
    \/ nInputs < MaxInputs /\ \E code \in KeyCodes : KeyDown(code)
    \/ nInputs < MaxInputs /\ \E code \in KeyCodes : KeyUp(code)
    \/ nInputs < MaxInputs /\ \E granted \in BOOLEAN : Click(granted)
    \/ nInputs < MaxInputs /\ \E mx \in MovementsX, my \in MovementsY :
                                 MouseMove(mx, my)
    \/ frames < MaxFrames /\ Frame

Spec == Init /\ [][Next]_vars

(***************************************************************************)
(* The loaded player: every load completed before the first frame after    *)
(* the mesh arrived, the yaw, pitch and mode set by earlier pointer and     *)
(* key events.                                                             *)
(***************************************************************************)
Loaded(th, ph, shoulder, locked) ==
    /\ position = ZeroVec
    /\ velocityY = 0
    /\ isJumping = FALSE
    /\ keys = NoKeys
    /\ mesh = [present |-> TRUE, position |-> ZeroVec, yaw |-> 0]
    /\ mixer = TRUE
    /\ animations = [a \in AnimNames |->
                        IF a = "idle" THEN "playing" ELSE "ready"]
    /\ currentAction = "idle"
    /\ isLoaded = TRUE
    /\ loadedCount = Cardinality(AnimNames)
    /\ pending = {}
    /\ theta = th
    /\ phi = ph
    /\ isShoulderMode = shoulder
    /\ currentPosition = ZeroVec
    /\ currentLookat = ZeroVec
    /\ camera = [position |-> Vec(0, 5000, 10000), forward |-> Vec(0, 0, 0 - 1)]
    /\ pointerLocked = locked
    /\ elapsed = 0
    /\ frames = 0
    /\ nInputs = 0
    /\ impulse = FALSE
    /\ lastEvent = "load"
    /\ started = "idle"

(***************************************************************************)
(* SpecPlay: the loaded player, key events and frames.                     *)
(***************************************************************************)
InitPlay == Loaded(0, 0, FALSE, FALSE)

NextPlay ==
    \/ nInputs < PlayInputs /\ \E code \in KeyCodes : KeyDown(code)
    \/ nInputs < PlayInputs /\ \E code \in KeyCodes : KeyUp(code)
    \/ frames < PlayFrames /\ Frame

SpecPlay == InitPlay /\ [][NextPlay]_vars

(***************************************************************************)
(* SpecJump: the jump scenario.  The loaded player rests at the origin;    *)
(* the jump key goes down, one frame runs, the key goes up, and frames of  *)
(* the same positive step follow.                                          *)
(***************************************************************************)
InitJump ==
    \E th \in {0 - 1200000, 0, 1200000}, ph \in {minPhi, 0, maxPhi},
       shoulder \in BOOLEAN : Loaded(th, ph, shoulder, TRUE)

\* a frame of the scenario: of the step of the frames before it
FixedFrame ==
    \E dt \in 1..MaxStep :
        /\ frames = 0 \/ elapsed = frames * dt
        /\ elapsed + dt <= MaxJumpTicks
        /\ Animate(dt)

NextJump ==
    \/ frames = 0 /\ nInputs = 0 /\ KeyDown("Space")
    \/ frames = 1 /\ nInputs = 1 /\ KeyUp("Space")
    \/ nInputs = (IF frames = 0 THEN 1 ELSE 2) /\ FixedFrame

SpecJump == InitJump /\ [][NextJump]_vars

(***************************************************************************)
(* SpecMouse: the mouse scenario.  Clicks (pointer lock granted or refused) *)
(* and mouse moves reach the loaded program; the moves include the one of  *)
(* 100 pixels to the right.                                                *)
(***************************************************************************)
InitMouse == Loaded(0, 0, FALSE, FALSE)

NextMouse ==
    \/ nInputs < MaxMoves /\ \E granted \in BOOLEAN : Click(granted)
    \/ nInputs < MaxMoves /\ \E mx \in MovementsX \cup {100},
                                 my \in MovementsY : MouseMove(mx, my)

SpecMouse == InitMouse /\ [][NextMouse]_vars

(***************************************************************************)
(* SpecDamp: the damping scenario.  The loaded player stands still, yaw,   *)
(* pitch and mode are fixed, and cameraController.update is called with    *)
(* the same positive time step again and again.  The steps are 16, 50, 100 *)
(* and 200 ms; elapsed counts milliseconds here.                           *)
(***************************************************************************)
DampSteps == {16, 50, 100, 200}

\* the state after a camera update alone that left the controller as c
CameraResult(c) ==
    /\ currentPosition' = c.currentPosition
    /\ currentLookat' = c.currentLookat
    /\ camera' = c.camera

\* cameraController.update(ms / 1000)
CameraStep(ms) ==
    /\ frames' = frames + 1
    /\ elapsed' = elapsed + ms
    /\ lastEvent' = "camera"
    /\ started' = "null"
    /\ CameraResult(IF ~CameraEnabled(mesh) THEN CameraFields
                    ELSE CameraDamp(CameraFields, mesh, DampFactorOf(ms)))
    /\ UNCHANGED <<playerVars, theta, phi, isShoulderMode, pointerLocked,
                   nInputs, impulse>>

NextDamp ==
    \E ms \in DampSteps :
        /\ frames < MaxDampSteps
        /\ frames = 0 \/ elapsed = frames * ms
        /\ CameraStep(ms)

SpecDamp == InitJump /\ [][NextDamp]_vars

(***************************************************************************)
(* SpecAnim: the animation scenario.  From construction the loads          *)
(* complete in any order, player.playAnimation is called for any of the    *)
(* three states at any time, and the forward and jump keys and frames      *)
(* follow.                                                                 *)
(***************************************************************************)
\* the state after a playAnimation call with result an
AnimationResult(an) ==
    /\ animations' = an.animations
    /\ currentAction' = an.currentAction
    /\ started' = an.started

\* player.playAnimation(name)
RequestAnimation(name) ==
    /\ AnimationResult(PlayAnimation(animations, currentAction, name))
    /\ lastEvent' = "play"
    /\ UNCHANGED <<position, velocityY, isJumping, keys, mesh, mixer, isLoaded,
                   loadedCount, pending, cameraVars, elapsed, frames, nInputs,
                   impulse>>

NextAnim ==
    \/ MeshLoaded
    \/ \E name \in AnimNames : AnimLoaded(name)
    \/ \E name \in AnimNames : RequestAnimation(name)
    \/ nInputs < AnimInputs /\ \E code \in {"KeyW", "Space"} : KeyDown(code)
    \/ nInputs < AnimInputs /\ \E code \in {"KeyW", "Space"} : KeyUp(code)
    \/ frames < AnimFrames /\ Frame

SpecAnim == Init /\ [][NextAnim]_vars

(***************************************************************************)
(* SpecHold: the jump key held.  The loaded player rests at the origin,    *)
(* the jump key goes down and stays down (a direction key may be pressed   *)
(* and released meanwhile), and frames of any length from 0 to MaxStep     *)
(* ticks follow.                                                           *)
(***************************************************************************)
NextHold ==
    \/ nInputs = 0 /\ KeyDown("Space")
    \/ nInputs = 1 /\ frames >= 1 /\ KeyDown("KeyW")
    \/ nInputs = 2 /\ KeyUp("KeyW")
    \/ nInputs >= 1 /\ frames < MaxHoldFrames
           /\ \E dt \in 0..MaxStep : Animate(dt)

SpecHold == InitPlay /\ [][NextHold]_vars

(***************************************************************************)
(* Claims.                                                                 *)
(***************************************************************************)

\* C1: for any sequence of key events and updates with deltaTime >= 0,
\* position.y is never negative when update returns.
C1_GroundClamp == position.y >= 0

\* C1 witness: a frame ended a jump by the ground collision (the jump clip
\* was played and has been faded out, the player is back at height 0)
C1_Landed ==
    /\ lastEvent = "frame"
    /\ animations["jump"] = "fading"
    /\ position.y = 0
    /\ ~isJumping

\* C2: an update that starts with isJumping true does not assign the jump
\* impulse, whatever the jump flag is (the velocity changes by gravity only,
\* unless the ground collision zeroes it); the impulse is assigned only in an
\* update that starts with the jump flag set and isJumping false.
C2_JumpIdempotent ==
    [][lastEvent' = "frame" =>
          /\ isJumping =>
                /\ ~impulse'
                /\ isJumping' =>
                      velocityY' = velocityY
                          + (gravity * Scale * (elapsed' - elapsed))
                                \div TicksPerSecond
          /\ impulse' => keys.space /\ ~isJumping]_vars

\* C2 witness: a frame ran with the jump key held while the player was
\* already in the air, and assigned no impulse
C2_HeldInAir ==
    /\ lastEvent = "frame"
    /\ keys.space
    /\ isJumping
    /\ ~impulse
    /\ velocityY < jumpForce * Scale
    /\ elapsed > 0

\* C3: after any sequence of mouse moves (any size, pointer lock held or
\* not), frames and view toggles, the pitch lies in [minPhi, maxPhi].
C3_PitchInRange == minPhi <= phi /\ phi <= maxPhi

\* C3 witness: a mouse move under pointer lock ran into the lower limit
C3_PitchClamped == lastEvent = "pointer" /\ pointerLocked /\ phi = minPhi

\* C4: while isLoaded is false a frame's Player.update changes neither the
\* position, the vertical velocity, isJumping, the animation state nor the
\* mesh, whatever keys are held and whatever deltaTime is.
C4_UnloadedUpdateNoOp ==
    [][lastEvent' = "frame" /\ ~isLoaded =>
          UNCHANGED <<position, velocityY, isJumping, currentAction,
                      animations, mesh, isLoaded>>]_vars

\* C4 witness: a frame of positive length ran with the jump key and a
\* direction key held while the clips were still loading
C4_FrameWhileLoading ==
    /\ lastEvent = "frame"
    /\ ~isLoaded
    /\ mesh.present
    /\ keys.space
    /\ keys.forward
    /\ elapsed > 0

\* the state isLoaded promises
C5_Ready ==
    /\ mesh.present
    /\ mixer
    /\ \A a \in AnimNames : animations[a] # "none"
    /\ animations["idle"] \in {"playing", "fading"}
    /\ currentAction # "null"
    /\ loadedCount = Cardinality(AnimNames)
    /\ pending = {}

\* C5: isLoaded becomes true only after the mesh load and all three clip
\* loads have completed, in whatever order the clips arrive; it never returns
\* to false; and whenever it is true the mesh, the mixer and the three
\* animations are there and the idle animation has been started.
C5_LoadedOnlyWhenComplete ==
    /\ [](isLoaded => C5_Ready)
    /\ [][isLoaded => isLoaded']_vars
    /\ [][~isLoaded /\ isLoaded' =>
              /\ lastEvent' = "load"
              /\ currentAction' = "idle"
              /\ animations'["idle"] = "playing"]_vars

\* C5 witness: everything is loaded and a frame has run since
C5_LoadedAndRunning == isLoaded /\ lastEvent = "frame" /\ elapsed > 0

\* C6: while the player's mesh has not been delivered, a frame's
\* CameraController.update changes neither the damped position, the damped
\* look-at point nor the render camera's pose.
C6_CameraWaitsForMesh ==
    [][lastEvent' = "frame" /\ ~mesh.present =>
          UNCHANGED <<currentPosition, currentLookat, camera>>]_vars

\* C6 witness: a frame of positive length ran without the mesh after mouse
\* moves had already changed yaw and pitch
C6_FrameWithoutMesh ==
    /\ lastEvent = "frame"
    /\ ~mesh.present
    /\ theta # 0
    /\ phi # 0
    /\ elapsed > 0
    /\ currentPosition = ZeroVec
    /\ camera.position = Vec(0, 5000, 10000)

\* C7: after every update of the loaded player the playing animation is
\* 'jump' if isJumping; otherwise 'walk' if the directional input is not
\* zero (opposing keys cancel); otherwise 'idle'.
C7_AnimationPriority ==
    lastEvent = "frame" /\ isLoaded =>
        /\ currentAction =
              IF isJumping THEN "jump"
              ELSE IF keys.forward # keys.backward \/ keys.left # keys.right
                   THEN "walk"
              ELSE "idle"
        /\ animations[currentAction] = "playing"

\* C7 witness: a frame ended in the air with a direction key held, and the
\* jump animation plays
C7_JumpOverWalk ==
    /\ lastEvent = "frame"
    /\ isJumping
    /\ keys.forward
    /\ ~keys.backward
    /\ currentAction = "jump"

\* every held direction is cancelled by its opposite
C8_Cancelled ==
    /\ (keys.forward /\ keys.backward) \/ (keys.left /\ keys.right)
    /\ keys.forward = keys.backward
    /\ keys.left = keys.right

\* C8: with every held direction cancelled by its opposite, the input vector
\* is zero and update leaves position.x and position.z (and the mesh's)
\* unchanged.
C8_OpposingKeysCancel ==
    /\ [](C8_Cancelled => InputVector(keys) = [x |-> 0, z |-> 0])
    /\ [][lastEvent' = "frame" /\ C8_Cancelled =>
              /\ position'.x = position.x
              /\ position'.z = position.z
              /\ mesh'.position.x = mesh.position.x
              /\ mesh'.position.z = mesh.position.z]_vars

\* C8 witness: a frame of positive length ran with forward and backward held
C8_FrameWithOpposingKeys ==
    /\ lastEvent = "frame"
    /\ keys.forward
    /\ keys.backward
    /\ elapsed > 0
    /\ isLoaded

\* the fixed step of the frames so far
C9_Step == elapsed \div frames

\* the player stands on the ground
C9_Landed == position.y = 0 /\ velocityY = 0 /\ ~isJumping

\* some update so far ended above the ground (it started the jump clip)
C9_LeftGround == animations["jump"] # "ready"

\* the last frame boundary within one second
C9_LastInSecond ==
    elapsed <= TicksPerSecond /\ elapsed + C9_Step > TicksPerSecond

\* C9 as claimed: for every fixed positive step, the first update lifts the
\* player off the ground and the player is back on it within one second.
C9_JumpReturnsAnyStep ==
    frames >= 1 =>
        /\ C9_LeftGround
        /\ frames = 1 => position.y > 0
        /\ C9_LastInSecond => C9_Landed

\* C9 amended: the same for fixed steps below jumpForce / |gravity| = 0.4 s.
C9_JumpReturns ==
    frames >= 1 /\ C9_Step * (0 - gravity) < jumpForce * TicksPerSecond =>
        /\ C9_LeftGround
        /\ frames = 1 => position.y > 0
        /\ C9_LastInSecond => C9_Landed

\* C9 witness: the player went up and is back on the ground within a second
C9_UpAndDown ==
    /\ frames >= 2
    /\ nInputs = 2
    /\ C9_LeftGround
    /\ C9_Landed
    /\ elapsed <= TicksPerSecond

\* C10: after every update of the loaded player isJumping holds iff
\* position.y > 0, and the vertical velocity is 0 at height 0; and only an
\* update that assigns the jump impulse lifts the player off the ground.
C10_JumpingIffAirborne ==
    /\ [](lastEvent = "frame" /\ isLoaded =>
              /\ isJumping <=> position.y > 0
              /\ position.y = 0 => velocityY = 0)
    /\ [][position.y = 0 /\ position'.y > 0 =>
              lastEvent' = "frame" /\ impulse']_vars

\* C10 witness: a frame ended with the player falling, still in the air
C10_Falling ==
    /\ lastEvent = "frame"
    /\ isJumping
    /\ position.y > 0
    /\ velocityY < 0

C12_PositionShift ==
    Mul(Cos(theta),
        CalculateIdealOffset(theta, phi, isShoulderMode, mesh.position).x
            - mesh.position.x)
    + Mul(0 - Sin(theta),
          CalculateIdealOffset(theta, phi, isShoulderMode, mesh.position).z
              - mesh.position.z)

\* C12, the lateral shift of the ideal look-at point along the same vector
C12_LookatShift ==
    Mul(Cos(theta),
        CalculateIdealLookat(theta, isShoulderMode, mesh.position).x
            - mesh.position.x)
    + Mul(0 - Sin(theta),
          CalculateIdealLookat(theta, isShoulderMode, mesh.position).z
              - mesh.position.z)

\* C12 as claimed: in shoulder mode the two lateral shifts have opposite
\* signs; in orbit mode neither the position nor the look-at point is
\* shifted.
C12_ShiftsOppose ==
    lastEvent = "frame" =>
        IF isShoulderMode
        THEN C12_PositionShift * C12_LookatShift < 0
        ELSE Abs(C12_PositionShift) <= 2 /\ C12_LookatShift = 0

\* C12 amended: in shoulder mode the ideal position and the ideal look-at
\* point are shifted by the same 0.8 to the same side (both along
\* +right, up to 0.005 of rounding); in orbit mode neither is shifted.
C12_ShiftsAgree ==
    IF isShoulderMode
    THEN /\ Abs(C12_PositionShift - 800) <= 5
         /\ Abs(C12_LookatShift - 800) <= 5
    ELSE /\ Abs(C12_PositionShift) <= 2
         /\ C12_LookatShift = 0

\* C12 witness: shoulder mode with the camera turned away from the axes and
\* the player off the ground, after a frame computed the ideal pose
C12_ShoulderTurned ==
    /\ isShoulderMode
    /\ theta # 0
    /\ lastEvent = "frame"
    /\ mesh.position.y > 0
    /\ currentPosition # ZeroVec

\* C13: in every frame the player update completes before the camera update:
\* the mesh position the camera reads equals the player's position (x, y and
\* z) after that frame's Player.update, and the damped look-at point moves
\* toward the ideal look-at point built from that position.
C13_CameraReadsNewPosition ==
    [][lastEvent' = "frame" /\ isLoaded =>
          /\ mesh'.position = position'
          /\ currentLookat' =
                 Lerp(currentLookat,
                      CalculateIdealLookat(theta, isShoulderMode, position'),
                      DampFactor(elapsed' - elapsed))]_vars

\* C13 witness: a frame of positive length moved the player forward and up,
\* and the damped look-at point has followed
C13_MovedAndFollowed ==
    /\ lastEvent = "frame"
    /\ position.y > 0
    /\ position.z < 0
    /\ mesh.position = position
    /\ currentLookat.z < 0

\* the key flag each key code names
C14_Names ==
    {<<"KeyW", "forward">>, <<"KeyS", "backward">>, <<"KeyA", "left">>,
     <<"KeyD", "right">>, <<"Space", "space">>}

C15_ForwardOnly ==
    keys.forward /\ ~keys.backward /\ ~keys.left /\ ~keys.right

\* the render camera faces the -Z world direction (horizontally)
C15_FacingMinusZ == camera.forward.x = 0 /\ camera.forward.z < 0

\* C15: with only the forward key held and the camera facing -Z, each update
\* of the loaded player moves the position by exactly (0, 0, -speed * dt)
\* horizontally, whether or not the player is jumping.
C15_ForwardMovesMinusZ ==
    [][lastEvent' = "frame" /\ isLoaded /\ C15_ForwardOnly
           /\ C15_FacingMinusZ =>
          /\ position'.x = position.x
          /\ TicksPerSecond * (position'.z - position.z) =
                 0 - speed * Scale * (elapsed' - elapsed)]_vars

\* C15 witness: two frames ran with forward held, the second one begun and
\* ended in the air, and the player has moved 1.5 units in -Z in 0.3 s with
\* the camera still facing -Z
C15_ForwardInTheAir ==
    /\ lastEvent = "frame"
    /\ C15_ForwardOnly
    /\ isJumping
    /\ frames = 2
    /\ elapsed = 3
    /\ position.x = 0
    /\ position.z = 0 - 1500
    /\ position.y > 0
    /\ C15_FacingMinusZ

\* the target facing yaw update computes for the held keys and the camera
C16_TargetYaw ==
    Atan2(MoveDirection(keys, camera.forward).x,
          MoveDirection(keys, camera.forward).z)

\* C16 as claimed: with only the forward key held and the camera facing -Z,
\* the target facing yaw is 0.
C16_TargetYawZero ==
    isLoaded /\ C15_ForwardOnly /\ C15_FacingMinusZ => C16_TargetYaw = 0

\* C16 amended: with only the forward key held and the camera facing -Z, the
\* target facing yaw is pi (the mesh is turned to -Z, the direction of the
\* movement); an update with 10 * deltaTime <= 1 brings the facing no farther
\* from pi, and one with deltaTime = 0.1 s sets it to pi.
C16_TargetYawPi ==
    /\ [](isLoaded /\ C15_ForwardOnly /\ C15_FacingMinusZ =>
              C16_TargetYaw = Pi)
    /\ [][lastEvent' = "frame" /\ isLoaded /\ C15_ForwardOnly
              /\ C15_FacingMinusZ
              /\ 10 * (elapsed' - elapsed) <= TicksPerSecond =>
             /\ Abs(WrapAngle(Pi - mesh'.yaw)) <= Abs(WrapAngle(Pi - mesh.yaw))
             /\ 10 * (elapsed' - elapsed) = TicksPerSecond =>
                    mesh'.yaw = Pi]_vars

\* C16 witness: a frame of 0.1 s with only forward held turned the mesh from
\* yaw 0 to yaw pi
C16_TurnedAround ==
    /\ lastEvent = "frame"
    /\ C15_ForwardOnly
    /\ frames = 1
    /\ elapsed = 1
    /\ mesh.yaw = Pi
    /\ position.z < 0

\* C17: a mouse move delivered while pointer lock is held lowers the yaw by
\* movementX * 0.002, without bound or wrap, and leaves the pitch unchanged
\* when movementY is 0; one delivered without pointer lock changes neither.
C17_MouseMovesYaw ==
    [][\A mx \in MovementsX \cup {100}, my \in MovementsY :
           MouseMove(mx, my) =>
               IF pointerLocked
               THEN /\ theta' = theta - mx * sensitivity
                    /\ my = 0 => phi' = phi
               ELSE theta' = theta /\ phi' = phi]_vars

\* C17 witness: under pointer lock three moves of 600 pixels to the right
\* have taken the yaw to -3.6 rad, below -pi
C17_YawBelowMinusPi ==
    /\ lastEvent = "pointer"
    /\ pointerLocked
    /\ theta = 0 - 3600000

\* the vector from the position p to the ideal camera position
C18_GapFrom(p) ==
    VSub(CalculateIdealOffset(theta, phi, isShoulderMode, mesh.position), p)

\* the square of the length of g
C18_Norm2(g) == g.x * g.x + g.y * g.y + g.z * g.z

\* the largest coordinate of g
C18_MaxOf(g) ==
    IF Abs(g.x) >= Abs(g.y) /\ Abs(g.x) >= Abs(g.z) THEN Abs(g.x)
    ELSE IF Abs(g.y) >= Abs(g.z) THEN Abs(g.y)
    ELSE Abs(g.z)

C19_PlayIsIdempotent ==
    [][/\ \A name \in AnimNames :
              RequestAnimation(name) =>
                  IF animations[name] = "none" \/ currentAction = name
                  THEN /\ UNCHANGED <<animations, currentAction>>
                       /\ started' = "null"
                  ELSE /\ currentAction' = name
                       /\ started' = name
                       /\ animations'[name] = "playing"
                       /\ \A a \in AnimNames \ {name} :
                              animations'[a] =
                                  IF a = currentAction THEN "fading"
                                  ELSE animations[a]
       /\ lastEvent' = "frame" /\ isLoaded =>
              IF currentAction' = currentAction
              THEN started' = "null" /\ UNCHANGED animations
              ELSE /\ started' = currentAction'
                   /\ animations'[currentAction] = "fading"
                   /\ animations'[currentAction'] = "playing"]_vars

\* C19 witness: two frames ran in the air; the first started the jump clip,
\* the second selected it again and did not restart it
C19_SecondFrameNoRestart ==
    /\ lastEvent = "frame"
    /\ frames = 2
    /\ isJumping
    /\ currentAction = "jump"
    /\ animations["jump"] = "playing"
    /\ animations["idle"] = "fading"
    /\ started = "null"

\* C20: for any sequence of key events and updates with time steps >= 0, the
\* jump key held continuously included (it jumps again only after landing),
\* position.y never exceeds jumpForce^2 / (2 * |gravity|) = 1.6.
C20_PeakBelowIdeal ==
    2 * (0 - gravity) * position.y <= jumpForce * jumpForce * Scale

\* C20 witness: with the jump key held all the time the player has landed
\* and is in the air again, on its second jump
C20_SecondJump ==
    /\ lastEvent = "frame"
    /\ keys.space
    /\ impulse
    /\ position.y > 0
    /\ isJumping
    /\ animations["idle"] = "fading"
    /\ animations["jump"] = "playing"
    /\ frames >= 3

====
